---- MODULE Spec2Model ----
(***************************************************************************)
(* Model of the informix_fdw backend-local caches (ifx_conncache.c) and of *)
(* the foreign scan callbacks (ifx_fdw.c).                                 *)
(*                                                                         *)
(* Strings are TLA+ strings; a NULL char pointer is the value NullStr.     *)
(* The connection hash table is a set of entries; every entry carries the  *)
(* address of its hash element, so that "the same entry" is observable.    *)
(***************************************************************************)
EXTENDS Integers, Sequences, FiniteSets, TLC

(***************************************************************************)
(* Bounds of the model.                                                    *)
(***************************************************************************)
\* largest usage counter value a cached connection may reach
MaxUsage == 3

(***************************************************************************)
(* Program constants.                                                      *)
(***************************************************************************)
\* length of a connection name buffer and key size of the connection hash
\* table; the header that sets it is not among the sources, every name of
\* the model is shorter
IFX_CONNAME_LEN == 63

IfxScanModes == {"IFX_PLAN_SCAN", "IFX_BEGIN_SCAN"}

\* a NULL char pointer
NullStr == "<NULL>"

\* a NULL item pointer
NullItem == 0

Min(a, b) == IF a < b THEN a ELSE b

(***************************************************************************)
(* String helpers.                                                         *)
(***************************************************************************)
\* StrNCpy(dst, src, len) into a zeroed buffer: at most len - 1 characters
\* are kept, nothing is copied when len is 0.
StrNCpy(src, len) ==
    IF len > 0 THEN SubSeq(src, 1, Min(Len(src), len - 1)) ELSE ""

\* the key dynahash stores and compares for a string key of keysize bytes
HashKey(conname) == StrNCpy(conname, IFX_CONNAME_LEN)

(***************************************************************************)
(* Connection information.                                                 *)
(***************************************************************************)
\* appendStringInfo(buf, "%s-%s-%s", username, database, servername)
ifxGenerateConnName(username, database, servername) ==
    username \o "-" \o database \o "-" \o servername

\* the table oids the cache interface is called with
Oids == {1, 2}
\* the foreign tables of the catalog
ForeignTableOids == {1, 2, 3}

\* (user, database, server) triples handed to the cache; the first two
\* generate one connection name
Identities ==
    { <<"a", "b-c", "s">>, <<"a-b", "c", "s">>, <<"a", "c", "s">> }

\* the DB_LOCALE configured for an identity (it can be NULL)
LocaleOf(id) == IF id[1] = "a-b" THEN NullStr ELSE "en_US"

\* coninfo->conname as ifxMakeConnectionInfo fills it
MakeConName(id) == StrNCpy(ifxGenerateConnName(id[1], id[2], id[3]), IFX_CONNAME_LEN)

ConnInfos ==
    { [ username |-> id[1], database |-> id[2], servername |-> id[3],
        informixdir |-> "/opt/informix",
        conname |-> MakeConName(id),
        db_locale |-> LocaleOf(id), client_locale |-> NullStr,
        tx_enabled |-> TRUE, db_ansi |-> FALSE,
        scan_mode |-> m ] :
      id \in Identities, m \in IfxScanModes }

ConNames == { MakeConName(id) : id \in Identities }

\* hash element addresses: one per connection name that can be cached
Addrs == 1..Cardinality(ConNames)

VARIABLES
    IfxCacheIsInitialized, \* InformixCacheInit() has run
    connections,           \* ifxCache.connections: set of IfxCachedConnection
    tables,                \* ifxCache.tables: set of IfxFTCacheItem
    ret,                   \* the last cache call and what it returned
    lastUsage,             \* per connection name, the usage last returned by add()
    backend,               \* "running", or "crashed" once the process died
    scans,                 \* per scan node, its IfxFdwExecutionState
    last,                  \* the last scan callback: remote calls issued, outcome
    conv,                  \* the last conversion routine called and what it did
    loc_buffer,            \* the bytes in the locator buffer of the current row
    walk,                  \* the last predicate tree walked and its context
    validated,             \* the last option list validated and the outcome
    opened                 \* the names of the remote connections established

cacheVars == <<IfxCacheIsInitialized, connections, tables, ret, lastUsage>>
scanVars == <<backend, scans, last>>
pureVars == <<conv, loc_buffer, walk, validated, opened>>
vars == <<IfxCacheIsInitialized, connections, tables, ret, lastUsage,
          backend, scans, last, conv, loc_buffer, walk, validated,
          opened>>

(***************************************************************************)
(* hash_search() on the connection table.                                  *)
(***************************************************************************)
ConnFound(conname) == \E e \in connections : e.key = HashKey(conname)
ConnLookup(conname) == CHOOSE e \in connections : e.key = HashKey(conname)
FreeAddrs == Addrs \ { e.addr : e \in connections }

\* the parameters an entry keeps from the call that created it
Params(e) ==
    <<e.establishedByOid, e.servername, e.informixdir, e.username, e.database,
      e.db_locale, e.client_locale>>

(***************************************************************************)
(* ifxConnCache_add                                                        *)
(***************************************************************************)
\* the branch taken when the connection name was not cached yet
ifxConnCache_add_new(addr, foreignTableOid, coninfo) ==
    [ key |-> HashKey(coninfo.conname),
      addr |-> addr,
      establishedByOid |-> foreignTableOid,
      servername |-> coninfo.servername,
      informixdir |-> coninfo.informixdir,
      username |-> coninfo.username,
      database |-> coninfo.database,
      tx_enabled |-> coninfo.tx_enabled,
      db_ansi |-> coninfo.db_ansi,
      tx_in_progress |-> 0,
      tx_num_commit |-> 0,
      tx_num_rollback |-> 0,
      db_locale |-> coninfo.db_locale,
      client_locale |-> coninfo.client_locale,
      usage |-> 1 ]

\* a found branch that copies the caller's parameters again
ifxConnCache_add_found_recopy(item, foreignTableOid, coninfo) ==
    [ifxConnCache_add_new(item.addr, foreignTableOid, coninfo) EXCEPT
        !.usage = IF coninfo.scan_mode = "IFX_PLAN_SCAN"
                  THEN item.usage + 1 ELSE item.usage]

\* a found branch that raises the usage counter whatever the scan mode
ifxConnCache_add_found_bump(item, foreignTableOid, coninfo) ==
    [item EXCEPT !.usage = @ + 1]

\* the branch taken when the connection name was found in the cache
ifxConnCache_add_found(item, foreignTableOid, coninfo) ==
    IF coninfo.scan_mode = "IFX_PLAN_SCAN"
    THEN [item EXCEPT !.usage = @ + 1]
    ELSE item

\* the cache after ifxConnCache_add(foreignTableOid, coninfo, &found),
\* addr being the hash element HASH_ENTER allocates for a new key
ConnCacheAfterAdd(addr, foreignTableOid, coninfo) ==
    IF ConnFound(coninfo.conname)
    THEN (connections \ {ConnLookup(coninfo.conname)})
            \cup {ifxConnCache_add_found(ConnLookup(coninfo.conname),
                                        foreignTableOid, coninfo)}
    ELSE connections \cup {ifxConnCache_add_new(addr, foreignTableOid, coninfo)}

\* the usage counter add() may still raise within the model's bound
AddInBound(coninfo) ==
    ConnFound(coninfo.conname) /\ coninfo.scan_mode = "IFX_PLAN_SCAN"
        => ConnLookup(coninfo.conname).usage < MaxUsage

ifxConnCache_add(foreignTableOid, coninfo) ==
    /\ IfxCacheIsInitialized
    /\ AddInBound(coninfo)
    /\ \E addr \in (IF ConnFound(coninfo.conname)
                    THEN {ConnLookup(coninfo.conname).addr} ELSE FreeAddrs) :
         /\ connections' = ConnCacheAfterAdd(addr, foreignTableOid, coninfo)
         /\ ret' = [ op |-> "add", key |-> HashKey(coninfo.conname),
                     found |-> ConnFound(coninfo.conname), item |-> addr,
                     scan_mode |-> coninfo.scan_mode,
                     oid |-> foreignTableOid, username |-> coninfo.username ]
    /\ lastUsage' = [lastUsage EXCEPT ![HashKey(coninfo.conname)] =
            (CHOOSE e \in connections' : e.key = HashKey(coninfo.conname)).usage]
    /\ UNCHANGED <<IfxCacheIsInitialized, tables>>

(***************************************************************************)
(* ifxConnCache_exists                                                     *)
(***************************************************************************)
ifxConnCache_exists(conname) ==
    /\ IfxCacheIsInitialized
    /\ ret' = [ op |-> "exists", key |-> HashKey(conname),
                found |-> ConnFound(conname),
                item |-> IF ConnFound(conname) THEN ConnLookup(conname).addr
                         ELSE NullItem,
                scan_mode |-> NullStr, oid |-> 0, username |-> NullStr ]
    /\ UNCHANGED <<IfxCacheIsInitialized, connections, tables, lastUsage>>

(***************************************************************************)
(* ifxConnCache_rm                                                         *)
(***************************************************************************)
\* a removal that looks the entry up and leaves it in the table
ifxConnCache_rm_keep(conname) ==
    /\ IfxCacheIsInitialized
    /\ ret' = [ op |-> "rm", key |-> HashKey(conname),
                found |-> ConnFound(conname),
                item |-> IF ConnFound(conname) THEN ConnLookup(conname).addr
                         ELSE NullItem,
                scan_mode |-> NullStr, oid |-> 0, username |-> NullStr ]
    /\ UNCHANGED <<IfxCacheIsInitialized, connections, tables, lastUsage>>

ifxConnCache_rm(conname) ==
    /\ IfxCacheIsInitialized
    /\ connections' = { e \in connections : e.key # HashKey(conname) }
    /\ ret' = [ op |-> "rm", key |-> HashKey(conname),
                found |-> ConnFound(conname),
                item |-> IF ConnFound(conname) THEN ConnLookup(conname).addr
                         ELSE NullItem,
                scan_mode |-> NullStr, oid |-> 0, username |-> NullStr ]
    /\ UNCHANGED <<IfxCacheIsInitialized, tables, lastUsage>>

(***************************************************************************)
(* ifxFTCache_add                                                          *)
(***************************************************************************)
TableFound(foreignTableOid) == \E t \in tables : t.foreignTableOid = foreignTableOid
TableLookup(foreignTableOid) == CHOOSE t \in tables : t.foreignTableOid = foreignTableOid

\* the entry initialised for a table seen for the first time
ifxFTCache_add_new(foreignTableOid, conname) ==
    [ foreignTableOid |-> foreignTableOid,
      ifx_connection_name |-> StrNCpy(conname, Len(conname)) ]

\* a found branch that binds the table to the connection name given last
ifxFTCache_add_found_rebind(item, foreignTableOid, conname) ==
    ifxFTCache_add_new(foreignTableOid, conname)

\* the entry kept for a table that is cached already
ifxFTCache_add_found(item, foreignTableOid, conname) == item

FTCacheAfterAdd(foreignTableOid, conname) ==
    IF TableFound(foreignTableOid)
    THEN (tables \ {TableLookup(foreignTableOid)})
            \cup {ifxFTCache_add_found(TableLookup(foreignTableOid),
                                      foreignTableOid, conname)}
    ELSE tables \cup {ifxFTCache_add_new(foreignTableOid, conname)}

ifxFTCache_add(foreignTableOid, conname) ==
    /\ IfxCacheIsInitialized
    /\ tables' = FTCacheAfterAdd(foreignTableOid, conname)
    /\ ret' = [ op |-> "ftadd", key |-> conname,
                found |-> TableFound(foreignTableOid), item |-> NullItem,
                scan_mode |-> NullStr, oid |-> foreignTableOid,
                username |-> NullStr ]
    /\ UNCHANGED <<IfxCacheIsInitialized, connections, lastUsage>>

(***************************************************************************)
(* InformixCacheInit                                                       *)
(***************************************************************************)
InformixCacheInit ==
    /\ IF ~IfxCacheIsInitialized
       THEN /\ tables' = {}
            /\ connections' = {}
            /\ IfxCacheIsInitialized' = TRUE
       ELSE UNCHANGED <<IfxCacheIsInitialized, connections, tables>>
    /\ ret' = [ op |-> "init", key |-> "", found |-> FALSE, item |-> NullItem,
                scan_mode |-> NullStr, oid |-> 0, username |-> NullStr ]
    /\ UNCHANGED lastUsage

(***************************************************************************)
(* Catalog and remote side seen by the scan callbacks.                     *)
(***************************************************************************)

\* the foreign tables of the catalog: connection options, pg_attribute rows
\* (TRUE is a dropped column) and the columns the remote query returns
ForeignTable(oid) ==
    CASE oid = 1 -> [ id |-> <<"a", "b-c", "s">>, tablename |-> "t1",
                      attisdropped |-> <<TRUE, TRUE>>,
                      remote |-> <<"IFX_INTEGER">> ]
      [] oid = 2 -> [ id |-> <<"a-b", "c", "s">>, tablename |-> "t2",
                      attisdropped |-> <<FALSE, TRUE, TRUE>>,
                      remote |-> <<"IFX_INTEGER", "IFX_CHARACTER", "IFX_SERIAL">> ]
      [] OTHER   -> [ id |-> <<"a", "c", "s">>, tablename |-> "t3",
                      attisdropped |-> <<TRUE, FALSE>>,
                      remote |-> <<"IFX_INTEGER", "IFX_INTEGER">> ]

\* ifxMakeConnectionInfo: the coninfo is palloc'ed, scan_mode is never set
ifxMakeConnectionInfo(foreignTableOid) ==
    { c \in ConnInfos :
        /\ c.username = ForeignTable(foreignTableOid).id[1]
        /\ c.database = ForeignTable(foreignTableOid).id[2]
        /\ c.servername = ForeignTable(foreignTableOid).id[3] }

\* snprintf(query, len, "SELECT * FROM %s", tablename)
ScanQuery(foreignTableOid) ==
    "SELECT * FROM " \o ForeignTable(foreignTableOid).tablename

(***************************************************************************)
(* ifxPgColumnData                                                         *)
(***************************************************************************)
\* a pgAttrDefs slot: NULL, a pointer never initialised, or never written
PgNull == "NULL"
PgWild == "wild"

RECURSIVE PgColumnLoop(_, _, _)
\* the outcomes of the pg_attribute loop from row attrIndex on; storing the
\* properties of a live column writes through a pointer palloc() left
\* uninitialised, which kills the backend or goes unnoticed
PgColumnLoop(attisdropped, attrIndex, defs) ==
    IF attrIndex > Len(attisdropped)
    THEN { [kind |-> "ok", pgAttrDefs |-> defs] }
    ELSE IF attisdropped[attrIndex]
    THEN PgColumnLoop(attisdropped, attrIndex + 1,
                      [defs EXCEPT ![attrIndex] = PgNull])
    ELSE IF attrIndex >= Len(attisdropped)
    THEN { [kind |-> "error", pgAttrDefs |-> defs] }
    ELSE { [kind |-> "crash", pgAttrDefs |-> defs] }
         \cup PgColumnLoop(attisdropped, attrIndex + 1, defs)

ifxPgColumnData(foreignTableOid) ==
    PgColumnLoop(ForeignTable(foreignTableOid).attisdropped, 1,
                 [i \in 1..Len(ForeignTable(foreignTableOid).attisdropped) |-> PgWild])

(***************************************************************************)
(* ifxGenStatementName, ifxGenCursorName                                   *)
(***************************************************************************)
\* the zeroed buffer is returned untouched: snprintf() is handed the format
\* literal as its destination and the connection name as its format
ifxGenStatementName(coninfo) == ""

ifxGenCursorName(coninfo) == ""

(***************************************************************************)
(* Scan state                                                              *)
(***************************************************************************)
\* number of scan nodes of one backend
MaxScans == 2
\* number of ifxIterateForeignScan calls per scan
MaxFetch == 2

ScanIds == 1..MaxScans

NoScan ==
    [ status |-> "none", oid |-> 0, conname |-> "", query |-> "",
      stmt_name |-> "", cursor_name |-> "",
      pgAttrCount |-> 0, pgAttrDefs |-> <<>>,
      ifxAttrCount |-> 0, ifxAttrDefs |-> <<>>,
      fetched |-> 0, eodAt |-> 0 ]

NoSlot == [ isempty |-> TRUE, nvalid |-> 0, cols |-> <<>> ]

NoCall == [ handler |-> "none", scan |-> 0, calls |-> <<>>, reads |-> {},
            outcome |-> "none", slot |-> NoSlot, cause |-> "none",
            rewinds |-> 0 ]

\* the backend dies: every backend-local structure is gone with it
Crash(handler, s) ==
    /\ backend' = "crashed"
    /\ IfxCacheIsInitialized' = FALSE
    /\ connections' = {}
    /\ tables' = {}
    /\ lastUsage' = [k \in ConNames |-> 0]
    /\ scans' = [x \in ScanIds |-> NoScan]
    /\ last' = [NoCall EXCEPT !.handler = handler, !.scan = s, !.outcome = "crash"]
    /\ UNCHANGED ret

(***************************************************************************)
(* ifxBeginForeignScan                                                     *)
(***************************************************************************)
\* the remote calls in the order the function issues them
BeginSteps == <<"prepare", "declare", "allocate", "open", "describe">>

\* a remote call's result makes ifxBeginForeignScan raise an error
BeginRaises(class) == class = "IFX_RT_ERROR"

RECURSIVE BeginCalls(_, _)
\* the remote calls issued from step i on, given the class each one reports
BeginCalls(res, i) ==
    IF i > Len(BeginSteps) THEN <<>>
    ELSE IF BeginRaises(res[i]) THEN << <<BeginSteps[i], res[i]>> >>
    ELSE << <<BeginSteps[i], res[i]>> >> \o BeginCalls(res, i + 1)

\* the classes the remote calls of one scan start report: at most one faults
BeginResults ==
    { [i \in 1..Len(BeginSteps) |-> IF i = k THEN c ELSE "IFX_SUCCESS"] :
        k \in 0..Len(BeginSteps), c \in {"IFX_ERROR", "IFX_RT_ERROR"} }

\* the session bind of a scan callback: ifxConnCache_add() is handed
\* coninfo->conname where it expects the coninfo, so what it reads hangs on
\* the layout of IfxConnectionInfo; it reads the caller's coninfo here, or
\* the backend dies (BeginCrash). ret keeps the last call made through the
\* cache interface itself
BindSession(foreignTableOid, coninfo) ==
    /\ AddInBound(coninfo)
    /\ \E addr \in (IF ConnFound(coninfo.conname)
                    THEN {ConnLookup(coninfo.conname).addr} ELSE FreeAddrs) :
         connections' = ConnCacheAfterAdd(addr, foreignTableOid, coninfo)
    /\ lastUsage' = [lastUsage EXCEPT ![HashKey(coninfo.conname)] =
            (CHOOSE e \in connections' : e.key = HashKey(coninfo.conname)).usage]
    /\ UNCHANGED ret

\* the execution state ifxBeginForeignScan leaves in node->fdw_state
BegunScan(foreignTableOid, coninfo, pg) ==
    [ status |-> "begun", oid |-> foreignTableOid,
      conname |-> StrNCpy(coninfo.conname, IFX_CONNAME_LEN),
      query |-> ScanQuery(foreignTableOid),
      stmt_name |-> ifxGenStatementName(coninfo),
      cursor_name |-> ifxGenCursorName(coninfo),
      pgAttrCount |-> Len(ForeignTable(foreignTableOid).attisdropped),
      pgAttrDefs |-> pg.pgAttrDefs,
      ifxAttrCount |-> Len(ForeignTable(foreignTableOid).remote),
      ifxAttrDefs |-> ForeignTable(foreignTableOid).remote,
      fetched |-> 0, eodAt |-> 0 ]

\* the function runs to its end or to the first error it raises
BeginRun(s, foreignTableOid) ==
    \E coninfo \in ifxMakeConnectionInfo(foreignTableOid),
       pg \in ifxPgColumnData(foreignTableOid),
       res \in BeginResults :
        /\ pg.kind # "crash"
        /\ BindSession(foreignTableOid, coninfo)
        /\ LET calls == IF pg.kind = "error" THEN <<>> ELSE BeginCalls(res, 1)
               raised == \/ pg.kind = "error"
                         \/ \E i \in 1..Len(calls) : BeginRaises(calls[i][2])
           IN /\ scans' = [scans EXCEPT ![s] =
                    IF raised THEN NoScan
                    ELSE BegunScan(foreignTableOid, coninfo, pg)]
              /\ last' = [ handler |-> "begin", scan |-> s, calls |-> calls,
                           reads |-> {},
                           outcome |-> IF raised THEN "error" ELSE "ok",
                           slot |-> NoSlot,
                           cause |-> IF pg.kind = "error" THEN "attributes"
                                     ELSE IF raised THEN "remote" ELSE "none",
                           \* none of the five error branches calls
                           \* ifxRewindCallstack() before its elog(ERROR)
                           rewinds |-> 0 ]
        /\ UNCHANGED <<IfxCacheIsInitialized, tables, backend>>

\* the backend dies in the function: Assert(conn_cached) on a build with
\* assertions, snprintf() writing into a string literal, a store through a
\* pointer never initialised
BeginCrash(s, foreignTableOid) == Crash("begin", s)

ifxBeginForeignScan(s, foreignTableOid) ==
    /\ backend = "running"
    /\ IfxCacheIsInitialized
    /\ scans[s].status = "none"
    /\ \/ BeginRun(s, foreignTableOid)
       \/ BeginCrash(s, foreignTableOid)

(***************************************************************************)
(* ifxColumnValueByAttNum and the column loop of ifxIterateForeignScan     *)
(***************************************************************************)
Unassigned == "unassigned"
ExplicitNull == "null"
NonNull == "value"

\* ifxColumnValueByAttNum(state, attnum): "go" when the value was stored,
\* "error" for a type id the switch does not know, "crash"; it reads
\* ifxAttrDefs[attnum - 1], which lies before the array for attnum 0, and
\* stores through values[attnum - 1], a pointer never initialised
ifxColumnValueByAttNum(state, attnum) ==
    IF attnum - 1 < 0
    THEN {"go", "error", "crash"}
    ELSE IF state.ifxAttrDefs[attnum] \in {"IFX_INTEGER", "IFX_SERIAL"}
    THEN {"go", "crash"}
    ELSE {"error"}

\* what the loop body assigns to position i once the value was retrieved;
\* pgAttrDefs holds pgAttrCount initialised slots, ind[i + 1] is the remote
\* indicator of column i, values[i] is a pointer never initialised
ColumnAssign(state, ind, i) ==
    IF i + 1 <= state.pgAttrCount /\ state.pgAttrDefs[i + 1] = PgNull
    THEN {ExplicitNull}
    ELSE IF i + 1 > state.pgAttrCount
    THEN {ExplicitNull, NonNull, "crash"}
    ELSE IF ind[i + 1] THEN {ExplicitNull}
    ELSE {NonNull, "crash"}

RECURSIVE ColumnLoop(_, _, _, _)
\* the outcomes of the loop from position i on: the positions assigned so
\* far and how the loop ended
ColumnLoop(state, ind, i, cols) ==
    IF ~(i < state.ifxAttrCount - 1)
    THEN { [kind |-> "ok", cols |-> cols] }
    ELSE UNION {
        IF v = "go"
        THEN UNION {
            IF a = "crash" THEN { [kind |-> "crash", cols |-> cols] }
            ELSE ColumnLoop(state, ind, i + 1, [cols EXCEPT ![i + 1] = a])
            : a \in ColumnAssign(state, ind, i) }
        ELSE { [kind |-> v, cols |-> cols] }
        : v \in ifxColumnValueByAttNum(state, i) }

\* the column positions ifxGetInt() is asked for while the loop runs
ColumnReads(state) == 0..(state.ifxAttrCount - 2)

(***************************************************************************)
(* ifxIterateForeignScan                                                   *)
(***************************************************************************)
FetchResults == {"IFX_SUCCESS", "IFX_NOT_FOUND", "IFX_ERROR", "IFX_RT_ERROR"}

\* the fetch result that makes the function return the empty slot
FetchEnds(class) == class = "IFX_NOT_FOUND"

IterateRun(s, class, ind) ==
    LET state == scans[s]
        fetch == << <<"fetch", class>> >>
    IN IF FetchEnds(class)
       THEN /\ scans' = [scans EXCEPT ![s].fetched = @ + 1,
                            ![s].eodAt = IF @ = 0 THEN state.fetched + 1 ELSE @]
            /\ last' = [ handler |-> "iterate", scan |-> s, calls |-> fetch,
                         reads |-> {}, outcome |-> "ok", slot |-> NoSlot,
                         cause |-> "none", rewinds |-> 0 ]
            /\ UNCHANGED <<cacheVars, backend>>
       ELSE \E out \in ColumnLoop(state, ind, 0,
                          [i \in 1..state.ifxAttrCount |-> Unassigned]) :
            IF out.kind = "crash"
            THEN Crash("iterate", s)
            ELSE /\ scans' = [scans EXCEPT ![s].fetched = @ + 1,
                        ![s].status = IF out.kind = "error" THEN "failed" ELSE @]
                 /\ last' = [ handler |-> "iterate", scan |-> s, calls |-> fetch,
                              reads |-> IF out.kind = "ok" THEN ColumnReads(state)
                                        ELSE {},
                              outcome |-> out.kind,
                              slot |-> IF out.kind = "ok"
                                       THEN [ isempty |-> FALSE,
                                              nvalid |-> state.ifxAttrCount,
                                              cols |-> out.cols ]
                                       ELSE NoSlot,
                              cause |-> IF out.kind = "error" THEN "type id"
                                        ELSE "none",
                              \* no ifxRewindCallstack() after the fetch
                              rewinds |-> 0 ]
                 /\ UNCHANGED <<cacheVars, backend>>

ifxIterateForeignScan(s) ==
    /\ backend = "running"
    /\ scans[s].status = "begun"
    /\ scans[s].fetched < MaxFetch
    /\ \E class \in FetchResults :
          \E ind \in (IF FetchEnds(class)
                      THEN {[i \in 1..scans[s].ifxAttrCount |-> FALSE]}
                      ELSE [1..scans[s].ifxAttrCount -> BOOLEAN]) :
            IterateRun(s, class, ind)

(***************************************************************************)
(* ifxPlanForeignScan                                                      *)
(***************************************************************************)
\* the function runs to its end or to the error it raises: the cache is
\* set up if need be, the connection name is entered in the cache, a
\* connection is opened for a new name and made current for a cached one,
\* and status is what ifxConnectionStatus() reports then. Making current a
\* connection that was never opened cannot succeed. The entry stays in the
\* cache when the error is raised.
PlanRun(foreignTableOid, status) ==
    \E coninfo \in ifxMakeConnectionInfo(foreignTableOid) :
        /\ ConnFound(coninfo.conname) /\ HashKey(coninfo.conname) \notin opened
              => status = "IFX_CONNECTION_ERROR"
        /\ BindSession(foreignTableOid, coninfo)
        /\ IfxCacheIsInitialized' = TRUE
        /\ opened' = IF ~ConnFound(coninfo.conname)
                        /\ status # "IFX_CONNECTION_ERROR"
                     THEN opened \cup {HashKey(coninfo.conname)}
                     ELSE opened
        /\ last' = [NoCall EXCEPT
                      !.handler = "plan",
                      !.calls = << << IF ConnFound(coninfo.conname)
                                      THEN "ifxSetConnection"
                                      ELSE "ifxCreateConnectionXact",
                                      status >> >>,
                      !.outcome = IF status = "IFX_CONNECTION_ERROR"
                                  THEN "error" ELSE "ok",
                      !.cause = IF status = "IFX_CONNECTION_ERROR"
                                THEN "connection" ELSE "none"]
        /\ UNCHANGED <<tables, backend, scans>>

\* the planner asks for the plan of a scan of the foreign table; the call
\* of ifxConnCache_add() is the one of ifxBeginForeignScan, and the backend
\* may die in it
ifxPlanForeignScan(foreignTableOid, status) ==
    /\ backend = "running"
    /\ \/ PlanRun(foreignTableOid, status)
       \/ Crash("plan", 0) /\ opened' = {}
    /\ UNCHANGED <<conv, loc_buffer, walk, validated>>

(***************************************************************************)
(* Datatype conversion: types, catalog lookups and the conversion outcome  *)
(***************************************************************************)

\* the local column types a foreign table column is declared with
PgTypes ==
    { "INT2OID", "INT4OID", "INT8OID", "TEXTOID", "VARCHAROID", "BPCHAROID",
      "BYTEAOID", "DATEOID", "TIMESTAMPOID", "TIMESTAMPTZOID", "NUMERICOID",
      "BOOLOID", "CHAROID" }

\* PointerGetDatum(NULL)
NullDatum == [ kind |-> "null" ]

\* what one call of a conversion routine did: the datum it returned, whether
\* it marked the attribute not valid (IFX_ATTR_SETNOTVALID_P), whether an
\* error left it, the ifxRewindCallstack() calls made before that, the
\* remote accessors it called and the catalog lookups it made, in order
ConvOut(datum, refused, error, rewound, accessors, found) ==
    [ result |-> datum, notvalid |-> refused, raised |-> error,
      rewinds |-> rewound, reads |-> accessors, lookups |-> found ]

\* the routine refuses the target type
ConvRefused(reads) == ConvOut(NullDatum, TRUE, FALSE, 0, reads, <<>>)

\* the remote accessor reported an SQL null or a conversion error
ConvNoValue(reads) == ConvOut(NullDatum, FALSE, FALSE, 0, reads, <<>>)

\* getTypeInputFunction(state, inputOid): the type's input routine; when the
\* syscache has no row for the type it rewinds and raises
getTypeInputFunction(env, inputOid) ==
    IF env.lookup
    THEN [ raised |-> FALSE, rewinds |-> 0, proc |-> <<"typinput", inputOid>> ]
    ELSE [ raised |-> TRUE, rewinds |-> 1, proc |-> <<>> ]

\* getTypeOutputFunction(state, inputOid)
getTypeOutputFunction(env, inputOid) ==
    IF env.lookup
    THEN [ raised |-> FALSE, rewinds |-> 0, proc |-> <<"typoutput", inputOid>> ]
    ELSE [ raised |-> TRUE, rewinds |-> 1, proc |-> <<>> ]

\* getTypeCastFunction(state, sourceOid, targetOid)
getTypeCastFunction(env, sourceOid, targetOid) ==
    IF env.lookup
    THEN [ raised |-> FALSE, rewinds |-> 0,
           proc |-> <<"castfunc", sourceOid, targetOid>> ]
    ELSE [ raised |-> TRUE, rewinds |-> 1, proc |-> <<>> ]

\* OidFunctionCallN(proc, args): the datum the routine returns, or the
\* error it raises
OidFunctionCall(env, proc, args) ==
    IF env.call
    THEN [ raised |-> FALSE, datum |-> [ kind |-> "call", proc |-> proc,
                                         args |-> args ] ]
    ELSE [ raised |-> TRUE, datum |-> NullDatum ]

\* a lookup followed by a call of the routine found, outside any
\* PG_TRY block: the error of either leaves the caller as it is
LookupAndCall(env, fn, args, reads) ==
    IF fn.raised
    THEN ConvOut(NullDatum, FALSE, TRUE, fn.rewinds, reads, <<"failed">>)
    ELSE LET r == OidFunctionCall(env, fn.proc, args)
         IN ConvOut(r.datum, FALSE, r.raised, 0, reads, <<fn.proc>>)

\* PG_TRY(); body PG_CATCH(); ifxRewindCallstack(); PG_RE_THROW();
PgTryRewind(out) ==
    IF out.raised THEN [out EXCEPT !.rewinds = @ + 1] ELSE out

\* the attribute attnum of the execution state: remote type, remote value
\* and indicator, local type and typmod
ConvAttr(state, attnum) == state.attrs[attnum]

(***************************************************************************)
(* convertIfxDateString, convertIfxTimestampString, convertIfxDecimal      *)
(***************************************************************************)
convertIfxDateString(state, attnum, env) ==
    LET a == ConvAttr(state, attnum)
        reads == <<"ifxGetDateAsString">>
    IN IF a.atttypid \notin {"TEXTOID", "VARCHAROID", "BPCHAROID", "DATEOID"}
       THEN ConvRefused(<<>>)
       ELSE IF a.isnull THEN ConvNoValue(reads)
       ELSE PgTryRewind(
              LookupAndCall(env, getTypeInputFunction(env, a.atttypid),
                            <<a.value, a.atttypmod>>, reads))

convertIfxTimestampString(state, attnum, env) ==
    LET a == ConvAttr(state, attnum)
        reads == <<"ifxGetTimestampAsString">>
    IN IF a.atttypid \notin {"TEXTOID", "VARCHAROID", "BPCHAROID", "TIMESTAMPOID",
                             "TIMESTAMPTZOID"}
       THEN ConvRefused(<<>>)
       ELSE IF a.isnull THEN ConvNoValue(reads)
       ELSE PgTryRewind(
              LookupAndCall(env, getTypeInputFunction(env, a.atttypid),
                            <<a.value, a.atttypmod>>, reads))

convertIfxDecimal(state, attnum, env) ==
    LET a == ConvAttr(state, attnum)
        reads == <<"ifxGetDecimal">>
    IN IF a.atttypid # "NUMERICOID"
       THEN ConvRefused(<<>>)
       ELSE IF a.isnull THEN ConvNoValue(reads)
       ELSE PgTryRewind(
              LookupAndCall(env, getTypeInputFunction(env, a.atttypid),
                            <<a.value, a.atttypmod>>, reads))

(***************************************************************************)
(* convertIfxInt                                                           *)
(***************************************************************************)
\* the 8-byte branch: the value comes as text from ifxGetInt8() or
\* ifxGetBigInt() and goes through the input routine of the target type
ConvertInt8Text(a, env) ==
    LET reads == IF a.type = "IFX_INFX_INT8" THEN <<"ifxGetBigInt">>
                 ELSE <<"ifxGetInt8">>
    IN IF a.isnull
       THEN ConvOut(NullDatum, FALSE, TRUE, 1, reads, <<>>)
       ELSE LET fn == getTypeInputFunction(env, a.atttypid)
            IN LookupAndCall(env, fn, <<reads[1], a.value>>, reads)

\* the cast branch: INTEGER is read as a 4-byte value and cast from int4,
\* every other remote type as a 2-byte value and cast from int2
ConvertIntCast(a, env) ==
    LET sourceOid == IF a.type = "IFX_INTEGER" THEN "INT4OID" ELSE "INT2OID"
        fn == getTypeCastFunction(env, sourceOid, a.atttypid)
        reads == IF sourceOid = "INT4OID" THEN <<"ifxGetInt4">>
                 ELSE <<"ifxGetInt2">>
    IN LookupAndCall(env, fn, <<reads[1], a.value>>,
                     IF fn.raised THEN <<>> ELSE reads)

\* convertIfxInt without the check of the remote type for an int2 target
convertIfxInt_any_source(state, attnum, env) ==
    LET a == ConvAttr(state, attnum)
    IN CASE a.atttypid = "INT2OID" ->
              ConvOut([ kind |-> "int16", from |-> "ifxGetInt2",
                        value |-> a.value ],
                      FALSE, FALSE, 0, <<"ifxGetInt2">>, <<>>)
         [] a.atttypid = "INT4OID" ->
              IF a.type \notin {"IFX_SMALLINT", "IFX_INTEGER", "IFX_SERIAL"}
              THEN ConvRefused(<<>>)
              ELSE ConvOut([ kind |-> "int32", from |-> "ifxGetInt4",
                             value |-> a.value ],
                           FALSE, FALSE, 0, <<"ifxGetInt4">>, <<>>)
         [] a.atttypid \in {"INT8OID", "TEXTOID", "VARCHAROID", "BPCHAROID"} ->
              PgTryRewind(
                IF a.type \in {"IFX_INT8", "IFX_SERIAL8", "IFX_INFX_INT8"}
                THEN ConvertInt8Text(a, env)
                ELSE ConvertIntCast(a, env))
         [] OTHER -> ConvRefused(<<>>)

convertIfxInt(state, attnum, env) ==
    LET a == ConvAttr(state, attnum)
    IN CASE a.atttypid = "INT2OID" ->
              IF a.type # "IFX_SMALLINT"
              THEN ConvRefused(<<>>)
              ELSE ConvOut([ kind |-> "int16", from |-> "ifxGetInt2",
                             value |-> a.value ],
                           FALSE, FALSE, 0, <<"ifxGetInt2">>, <<>>)
         [] a.atttypid = "INT4OID" ->
              IF a.type \notin {"IFX_SMALLINT", "IFX_INTEGER", "IFX_SERIAL"}
              THEN ConvRefused(<<>>)
              ELSE ConvOut([ kind |-> "int32", from |-> "ifxGetInt4",
                             value |-> a.value ],
                           FALSE, FALSE, 0, <<"ifxGetInt4">>, <<>>)
         [] a.atttypid \in {"INT8OID", "TEXTOID", "VARCHAROID", "BPCHAROID"} ->
              PgTryRewind(
                IF a.type \in {"IFX_INT8", "IFX_SERIAL8", "IFX_INFX_INT8"}
                THEN ConvertInt8Text(a, env)
                ELSE ConvertIntCast(a, env))
         [] OTHER -> ConvRefused(<<>>)

(***************************************************************************)
(* setIfxInteger                                                           *)
(***************************************************************************)
\* what one call of setIfxInteger did: the indicator it set, the remote
\* binding calls it made, the lookups it made, the error that left it
SetOut(ind, bound, error, rewound, found) ==
    [ indicator |-> ind, writes |-> bound, raised |-> error,
      rewinds |-> rewound, lookups |-> found ]

setIfxInteger(state, slot, attnum, env) ==
    LET a == ConvAttr(state, attnum)
        ind == IF slot.tts_isnull[attnum] THEN "INDICATOR_NULL"
               ELSE "INDICATOR_NOT_NULL"
    IN CASE a.type = "IFX_SMALLINT" ->
              SetOut(ind, << <<"ifxSetInt2", slot.tts_values[attnum]>> >>,
                     FALSE, 0, <<>>)
         [] a.type \in {"IFX_INTEGER", "IFX_SERIAL"} ->
              SetOut(ind, << <<"ifxSetInteger", slot.tts_values[attnum]>> >>,
                     FALSE, 0, <<>>)
         [] a.type \in {"IFX_INT8", "IFX_INFX_INT8", "IFX_SERIAL8"} ->
              LET typout == getTypeOutputFunction(env, a.atttypid)
              IN IF typout.raised
                 THEN SetOut(ind, <<>>, TRUE, typout.rewinds, <<"failed">>)
                 ELSE LET strval == OidFunctionCall(env, typout.proc,
                                        <<slot.tts_values[attnum]>>)
                      IN IF strval.raised
                         THEN SetOut(ind, <<>>, TRUE, 0, <<typout.proc>>)
                         ELSE SetOut(ind,
                                << << IF a.type = "IFX_INT8" THEN "ifxSetInt8"
                                      ELSE "ifxSetBigint", strval.datum >> >>,
                                FALSE, 0, <<typout.proc>>)
         [] OTHER -> SetOut(ind, <<>>, FALSE, 0, <<>>)

(***************************************************************************)
(* convertIfxBoolean                                                       *)
(***************************************************************************)
\* the value is read before the target type is looked at; the cast to a
\* character type runs outside any PG_TRY block
convertIfxBoolean(state, attnum, env) ==
    LET a == ConvAttr(state, attnum)
        reads == <<"ifxGetBool">>
    IN CASE a.atttypid \in {"BOOLOID", "CHAROID"} ->
              ConvOut([ kind |-> "bool", from |-> "ifxGetBool",
                        value |-> a.value ],
                      FALSE, FALSE, 0, reads, <<>>)
         [] a.atttypid \in {"TEXTOID", "VARCHAROID", "BPCHAROID"} ->
              LookupAndCall(env,
                            getTypeCastFunction(env, "BOOLOID", a.atttypid),
                            <<"ifxGetBool", a.value>>, reads)
         [] OTHER -> ConvRefused(reads)

(***************************************************************************)
(* convertIfxSimpleLO                                                      *)
(***************************************************************************)
\* a varlena datum: where its bytes are stored and, for storage of its own,
\* the bytes copied into it
OwnedVarlena(type, val) ==
    [ kind |-> type, storage |-> "palloc", bytes |-> val ]

\* the datum points into the locator buffer: no copy is made
SimpleLOAlias(val) ==
    [ kind |-> "bytea", storage |-> "loc_buffer", bytes |-> val ]

\* bytea *binary_data = palloc0(VARHDRSZ + len); memcpy(VARDATA(...), val, len)
SimpleLOCopy(val) ==
    OwnedVarlena("bytea", val)

\* the character targets call the input routine and then fall through to
\* the bytea case (no break), whose copy is what the routine returns
convertIfxSimpleLO(state, attnum, env) ==
    LET a == ConvAttr(state, attnum)
        reads == <<"ifxGetTextFromLocator">>
    IN IF a.atttypid \notin {"TEXTOID", "BPCHAROID", "VARCHAROID", "BYTEAOID"}
       THEN ConvRefused(<<>>)
       ELSE IF a.isnull THEN ConvNoValue(reads)
       ELSE PgTryRewind(
              LET fn == getTypeInputFunction(env, a.atttypid)
              IN IF fn.raised
                 THEN ConvOut(NullDatum, FALSE, TRUE, fn.rewinds, reads,
                              <<"failed">>)
                 ELSE IF a.atttypid = "BYTEAOID"
                 THEN ConvOut(SimpleLOCopy(a.value), FALSE, FALSE, 0, reads,
                              <<fn.proc>>)
                 ELSE LET r == OidFunctionCall(env, fn.proc,
                                 IF a.atttypmod # -1
                                 THEN <<a.value, a.atttypmod>>
                                 ELSE <<a.value>>)
                      IN IF r.raised
                         THEN ConvOut(NullDatum, FALSE, TRUE, 0, reads,
                                      <<fn.proc>>)
                         ELSE ConvOut(SimpleLOCopy(a.value), FALSE, FALSE, 0,
                                      reads, <<fn.proc>>))

(***************************************************************************)
(* convertIfxCharacterString                                               *)
(***************************************************************************)
\* a failed lookup of the type row marks the attribute not valid and
\* returns the null datum
convertIfxCharacterString(state, attnum, env) ==
    LET a == ConvAttr(state, attnum)
        reads == <<"ifxGetText">>
    IN IF a.atttypid \notin {"TEXTOID", "VARCHAROID", "BPCHAROID", "BYTEAOID"}
       THEN ConvRefused(<<>>)
       ELSE IF a.isnull THEN ConvNoValue(reads)
       ELSE IF \/ a.atttypid \in {"TEXTOID", "BYTEAOID"}
               \/ (a.atttypid = "VARCHAROID" /\ a.atttypmod = -1)
       THEN ConvOut(OwnedVarlena(IF a.atttypid = "TEXTOID" THEN "text"
                                 ELSE "bytea", a.value),
                    FALSE, FALSE, 0, reads, <<>>)
       ELSE IF ~env.lookup
       THEN ConvOut(NullDatum, TRUE, FALSE, 0, reads, <<"failed">>)
       ELSE PgTryRewind(
              LET r == OidFunctionCall(env, <<"typinput", a.atttypid>>,
                                       <<a.value, a.atttypmod>>)
              IN ConvOut(r.datum, FALSE, r.raised, 0, reads,
                         << <<"typinput", a.atttypid>> >>))

(***************************************************************************)
(* Conversion calls: the attributes and the environment they run in        *)
(***************************************************************************)
\* the remote types each routine is written for
IfxIntTypes ==
    { "IFX_SMALLINT", "IFX_INTEGER", "IFX_SERIAL", "IFX_INT8", "IFX_SERIAL8",
      "IFX_INFX_INT8" }

\* atttypmod: none, or the typmod of a length-limited column
TypMods == { -1, 6 }

\* remote values: integers beyond and within 16 bits, character data
IntValues == { 7, 70000 }
TextValues == { "ab", "xyz" }

\* the syscache has the row looked up; the routine called returns
ConvEnvs == [ lookup : BOOLEAN, call : BOOLEAN ]

\* the columns a routine can be called on
ConvAttrs(types, values) ==
    [ type : types, atttypid : PgTypes, atttypmod : TypMods,
      isnull : BOOLEAN, value : values ]

\* no conversion routine to call
NoConv == [ routine |-> "none" ]

\* no row fetched yet
NoRow == ""

\* a routine about to be called on a column, and once called (called) what
\* it did (out)
ConvCall(routine, a, env) ==
    [ routine |-> routine, attr |-> a, env |-> env, called |-> FALSE,
      out |-> NullDatum ]

\* the calls the executor can make: every routine on the columns of the
\* remote types it is written for
ConvCalls ==
    { ConvCall("convertIfxDateString", a, env) :
        a \in ConvAttrs({"IFX_DATE"}, TextValues), env \in ConvEnvs }
    \cup { ConvCall("convertIfxTimestampString", a, env) :
        a \in ConvAttrs({"IFX_DTIME"}, TextValues), env \in ConvEnvs }
    \cup { ConvCall("convertIfxDecimal", a, env) :
        a \in ConvAttrs({"IFX_DECIMAL"}, TextValues), env \in ConvEnvs }
    \cup { ConvCall("convertIfxInt", a, env) :
        a \in ConvAttrs(IfxIntTypes, IntValues), env \in ConvEnvs }
    \cup { ConvCall("setIfxInteger", a, env) :
        a \in { x \in ConvAttrs(IfxIntTypes, IntValues) :
                  x.atttypid \in {"INT2OID", "INT4OID", "INT8OID"} },
        env \in ConvEnvs }
    \cup { ConvCall("convertIfxBoolean", a, env) :
        a \in ConvAttrs({"IFX_BOOLEAN"}, {"t", "f"}), env \in ConvEnvs }
    \cup { ConvCall("convertIfxSimpleLO", a, env) :
        a \in ConvAttrs({"IFX_TEXT", "IFX_BYTES"}, TextValues), env \in ConvEnvs }
    \cup { ConvCall("convertIfxCharacterString", a, env) :
        a \in ConvAttrs({"IFX_CHARACTER"}, TextValues), env \in ConvEnvs }

Pending(routine) == conv.routine = routine /\ ~conv.called

ConvFrame ==
    UNCHANGED <<cacheVars, scanVars, loc_buffer, walk, validated, opened>>

ConvDate ==
    /\ Pending("convertIfxDateString")
    /\ conv' = [conv EXCEPT !.called = TRUE,
           !.out = convertIfxDateString([attrs |-> <<conv.attr>>], 1, conv.env)]
    /\ ConvFrame

ConvTimestamp ==
    /\ Pending("convertIfxTimestampString")
    /\ conv' = [conv EXCEPT !.called = TRUE,
           !.out = convertIfxTimestampString([attrs |-> <<conv.attr>>], 1,
                                             conv.env)]
    /\ ConvFrame

ConvDecimal ==
    /\ Pending("convertIfxDecimal")
    /\ conv' = [conv EXCEPT !.called = TRUE,
           !.out = convertIfxDecimal([attrs |-> <<conv.attr>>], 1, conv.env)]
    /\ ConvFrame

ConvInt ==
    /\ Pending("convertIfxInt")
    /\ conv' = [conv EXCEPT !.called = TRUE,
           !.out = convertIfxInt([attrs |-> <<conv.attr>>], 1, conv.env)]
    /\ ConvFrame

\* the slot holds the value of the column and its null flag
SetInteger ==
    /\ Pending("setIfxInteger")
    /\ conv' = [conv EXCEPT !.called = TRUE,
           !.out = setIfxInteger([attrs |-> <<conv.attr>>],
                                 [ tts_isnull |-> <<conv.attr.isnull>>,
                                   tts_values |-> <<conv.attr.value>> ],
                                 1, conv.env)]
    /\ ConvFrame

ConvBoolean ==
    /\ Pending("convertIfxBoolean")
    /\ conv' = [conv EXCEPT !.called = TRUE,
           !.out = convertIfxBoolean([attrs |-> <<conv.attr>>], 1, conv.env)]
    /\ ConvFrame

ConvSimpleLO ==
    /\ Pending("convertIfxSimpleLO")
    /\ conv' = [conv EXCEPT !.called = TRUE,
           !.out = convertIfxSimpleLO([attrs |-> <<conv.attr>>], 1, conv.env)]
    /\ ConvFrame

ConvCharacterString ==
    /\ Pending("convertIfxCharacterString")
    /\ conv' = [conv EXCEPT !.called = TRUE,
           !.out = convertIfxCharacterString([attrs |-> <<conv.attr>>], 1,
                                             conv.env)]
    /\ ConvFrame

\* the cursor advances: the ESQL/C library reuses the locator buffer for
\* the large object of the next row
FetchNextRow ==
    /\ conv.routine # "none"
    /\ conv.called
    /\ loc_buffer' \in TextValues \ {loc_buffer}
    /\ UNCHANGED <<cacheVars, scanVars, conv, walk, validated, opened>>

(***************************************************************************)
(* Predicate pushdown: expression nodes                                    *)
(***************************************************************************)

\* the range table index of the foreign table in the query
ForeignRtid == 2

\* a Var: range table index, outer-query level, column name
Var(varno, varlevelsup, attname) ==
    [ type |-> "T_Var", varno |-> varno, varlevelsup |-> varlevelsup,
      attname |-> attname ]

\* a Const with the text the expression printer gives it
Const(text) == [ type |-> "T_Const", text |-> text ]

\* an operand that is neither a Var nor a Const
SubLink == [ type |-> "T_SubLink" ]

\* an operator with its pg_operator row: its name and its namespace
Operator(name, namespace) ==
    [ valid |-> TRUE, oprname |-> name, oprnamespace |-> namespace ]

\* an operator whose pg_operator row is gone
DroppedOperator == [ valid |-> FALSE, oprname |-> "", oprnamespace |-> "" ]

OpExpr(opno, larg, rarg) ==
    [ type |-> "T_OpExpr", opno |-> opno, args |-> <<larg, rarg>> ]

NullTest(arg, nulltesttype, argisrow) ==
    [ type |-> "T_NullTest", arg |-> arg, nulltesttype |-> nulltesttype,
      argisrow |-> argisrow ]

BoolExpr(boolop, args) ==
    [ type |-> "T_BoolExpr", boolop |-> boolop, args |-> args ]

\* a node of another kind, here the call of a function
FuncExpr == [ type |-> "T_FuncExpr" ]

(***************************************************************************)
(* mapPushdownOperator                                                     *)
(***************************************************************************)
\* the operator names compared without a look at the namespace
mapPushdownOperator_any_namespace(oprid) ==
    CASE oprid.oprname = ">=" -> "IFX_OPR_GE"
      [] oprid.oprname = "<=" -> "IFX_OPR_LE"
      [] oprid.oprname = "<" -> "IFX_OPR_LT"
      [] oprid.oprname = ">" -> "IFX_OPR_GT"
      [] oprid.oprname = "=" -> "IFX_OPR_EQUAL"
      [] oprid.oprname = "<>" -> "IFX_OPR_NEQUAL"
      [] oprid.oprname = "~~" -> "IFX_OPR_LIKE"
      [] OTHER -> "IFX_OPR_NOT_SUPPORTED"

\* the value returned when the lookup succeeds
mapPushdownOperator(oprid) ==
    IF oprid.oprnamespace # "PG_CATALOG_NAMESPACE" THEN "IFX_OPR_NOT_SUPPORTED"
    ELSE CASE oprid.oprname = ">=" -> "IFX_OPR_GE"
           [] oprid.oprname = "<=" -> "IFX_OPR_LE"
           [] oprid.oprname = "<" -> "IFX_OPR_LT"
           [] oprid.oprname = ">" -> "IFX_OPR_GT"
           [] oprid.oprname = "=" -> "IFX_OPR_EQUAL"
           [] oprid.oprname = "<>" -> "IFX_OPR_NEQUAL"
           [] oprid.oprname = "~~" -> "IFX_OPR_LIKE"
           [] OTHER -> "IFX_OPR_NOT_SUPPORTED"

(***************************************************************************)
(* deparse_predicate_node                                                  *)
(***************************************************************************)
\* the text of an operand once ChangeVarNodes() has renumbered the Vars of
\* the foreign table: a column prints as its name
DeparseOperand(arg) ==
    CASE arg.type = "T_Var" -> arg.attname
      [] arg.type = "T_Const" -> arg.text
      [] OTHER -> "?"

\* deparse_expression() of an accepted node
deparse_predicate_node(node) ==
    IF node.type = "T_OpExpr"
    THEN "(" \o DeparseOperand(node.args[1]) \o " " \o node.opno.oprname
             \o " " \o DeparseOperand(node.args[2]) \o ")"
    ELSE "(" \o DeparseOperand(node.arg)
             \o (IF node.nulltesttype = "IS_NULL" THEN " IS NULL)"
                 ELSE " IS NOT NULL)")

(***************************************************************************)
(* ifx_predicate_tree_walker                                               *)
(***************************************************************************)
\* push the info of an accepted node and count it
IFX_MARK_PREDICATE_ELEM(info, context) ==
    [context EXCEPT !.predicates = Append(@, info), !.count = @ + 1]

\* push the info of a connective; the macro counts it as well
IFX_MARK_PREDICATE_BOOL(info, context) ==
    [context EXCEPT !.predicates = Append(@, info), !.count = @ + 1]

\* the Var belongs to the foreign table and to this query level
VarSupported(var, context) ==
    var.varno = context.foreign_rtid /\ var.varlevelsup = 0

\* the operand loop left out
OperandsUnchecked(args, context) == TRUE

\* the operand loop of an OpExpr
OperandsSupported(args, context) ==
    \A i \in 1..Len(args) :
        \/ args[i].type = "T_Const"
        \/ args[i].type = "T_Var" /\ VarSupported(args[i], context)

\* the info pushed between two arguments of a BoolExpr
BoolMarker(boolop) ==
    CASE boolop = "AND_EXPR" ->
            [ type |-> "IFX_OPR_AND", expr_string |-> "AND" ]
      [] boolop = "OR_EXPR" ->
            [ type |-> "IFX_OPR_OR", expr_string |-> "OR" ]
      [] boolop = "NOT_EXPR" ->
            [ type |-> "IFX_OPR_NOT", expr_string |-> "NOT" ]

\* what a call of the walker returns (ret) unless it raises an error
\* (raised), and the context it leaves
Walked(value, error, left) ==
    [ ret |-> value, raised |-> error, context |-> left ]

\* the NullTest branch without the test of argisrow
WalkNullTest_rows(ntest, context) ==
    IF ~(ntest.arg.type = "T_Var" /\ VarSupported(ntest.arg, context))
    THEN Walked(TRUE, FALSE, context)
    ELSE Walked(FALSE, FALSE,
           IFX_MARK_PREDICATE_ELEM(
              [ type |-> IF ntest.nulltesttype = "IS_NULL" THEN "IFX_IS_NULL"
                         ELSE "IFX_IS_NOT_NULL",
                expr_string |-> deparse_predicate_node(ntest) ], context))

WalkNullTest(ntest, context) ==
    IF ntest.argisrow THEN Walked(TRUE, FALSE, context)
    ELSE IF ~(ntest.arg.type = "T_Var" /\ VarSupported(ntest.arg, context))
    THEN Walked(TRUE, FALSE, context)
    ELSE Walked(FALSE, FALSE,
           IFX_MARK_PREDICATE_ELEM(
              [ type |-> IF ntest.nulltesttype = "IS_NULL" THEN "IFX_IS_NULL"
                         ELSE "IFX_IS_NOT_NULL",
                expr_string |-> deparse_predicate_node(ntest) ], context))

WalkOpExpr(opr, context) ==
    IF ~opr.opno.valid  \* mapPushdownOperator: "cache lookup failed"
    THEN Walked(FALSE, TRUE, context)
    ELSE IF mapPushdownOperator(opr.opno) = "IFX_OPR_NOT_SUPPORTED"
    THEN Walked(TRUE, FALSE, context)
    ELSE IF ~OperandsSupported(opr.args, context)
    THEN Walked(TRUE, FALSE, context)
    ELSE Walked(FALSE, FALSE,
           IFX_MARK_PREDICATE_ELEM(
              [ type |-> mapPushdownOperator(opr.opno),
                expr_string |-> deparse_predicate_node(opr) ], context))

RECURSIVE ifx_predicate_tree_walker(_, _)
RECURSIVE WalkBoolArgs(_, _, _)
\* foreach(cell, boolexpr->args): walk the argument, then push the marker
\* unless the argument is the last one; an error leaves the loop
WalkBoolArgs(boolexpr, i, context) ==
    IF i > Len(boolexpr.args) THEN Walked(TRUE, FALSE, context)
    ELSE LET arg == ifx_predicate_tree_walker(boolexpr.args[i], context)
         IN IF arg.raised THEN Walked(FALSE, TRUE, arg.context)
            ELSE WalkBoolArgs(boolexpr, i + 1,
                    IF i < Len(boolexpr.args)
                    THEN IFX_MARK_PREDICATE_BOOL(BoolMarker(boolexpr.boolop),
                                                 arg.context)
                    ELSE arg.context)

ifx_predicate_tree_walker(node, context) ==
    CASE node.type = "T_BoolExpr" -> WalkBoolArgs(node, 1, context)
      [] node.type = "T_NullTest" -> WalkNullTest(node, context)
      [] node.type = "T_OpExpr" -> WalkOpExpr(node, context)
      [] OTHER -> Walked(FALSE, FALSE, context)

(***************************************************************************)
(* Predicate pushdown: the restriction clauses the walker is called on     *)
(***************************************************************************)
\* the most arguments of an AND or an OR
MaxOperands == 3

ColA == Var(ForeignRtid, 0, "a")

\* a > 5, b = 'x': comparisons of a column of the foreign table to a constant
GtConst == OpExpr(Operator(">", "PG_CATALOG_NAMESPACE"), ColA, Const("5"))
EqConst ==
    OpExpr(Operator("=", "PG_CATALOG_NAMESPACE"), Var(ForeignRtid, 0, "b"),
           Const("'x'"))

\* operands that are no column of the foreign table at this query level and
\* no constant: a sub-select, a function call, a column of another relation,
\* an outer reference
OddOperands == {SubLink, FuncExpr, Var(1, 0, "c"), Var(ForeignRtid, 1, "a")}

\* the nodes without a connective: comparisons with the operators of the
\* list, comparisons with an odd operand on either side, comparisons with an
\* operator of another namespace or of another name or without a pg_operator
\* row, NULL tests, and a node of another kind
Leaves ==
    { OpExpr(Operator(name, "PG_CATALOG_NAMESPACE"), ColA, Const("5")) :
        name \in {">=", "<=", "<", "<>", "~~", "~~*", "+"} }
    \cup {GtConst, EqConst}
    \cup { OpExpr(Operator(">", "PG_CATALOG_NAMESPACE"), ColA, arg) :
             arg \in OddOperands }
    \cup { OpExpr(Operator("=", "PG_CATALOG_NAMESPACE"), arg, Const("5")) :
             arg \in OddOperands }
    \cup { OpExpr(Operator(name, "public"), ColA, Const("5")) :
             name \in {"=", "~~", "+"} }
    \cup { OpExpr(Operator("=", "public"), ColA, SubLink),
           OpExpr(DroppedOperator, ColA, Const("5")), FuncExpr }
    \cup { NullTest(arg, nulltesttype, argisrow) :
             arg \in {ColA} \cup OddOperands,
             nulltesttype \in {"IS_NULL", "IS_NOT_NULL"},
             argisrow \in BOOLEAN }

\* AND and OR take two arguments or more, NOT takes one
BoolExprs(operands) ==
    { BoolExpr("NOT_EXPR", <<arg>>) : arg \in operands }
    \cup UNION { { BoolExpr(boolop, args) :
                     boolop \in {"AND_EXPR", "OR_EXPR"},
                     args \in [1..n -> operands] } : n \in 2..MaxOperands }

\* the arguments of the connectives: leaves, and connectives of accepted
\* leaves
BoolOperands ==
    { GtConst, EqConst,
      OpExpr(Operator(">", "PG_CATALOG_NAMESPACE"), ColA, SubLink),
      NullTest(ColA, "IS_NULL", FALSE), FuncExpr,
      OpExpr(DroppedOperator, ColA, Const("5")),
      BoolExpr("NOT_EXPR", <<GtConst>>) }
    \cup { BoolExpr(boolop, args) :
             boolop \in {"AND_EXPR", "OR_EXPR"},
             args \in {<<GtConst, EqConst>>, <<EqConst, GtConst>>} }

Quals == Leaves \cup BoolExprs(BoolOperands)

\* the context before the clause is walked: empty, or holding the fragment
\* of a clause walked before it
WalkContexts ==
    { [ foreign_rtid |-> ForeignRtid, predicates |-> <<>>, count |-> 0 ],
      [ foreign_rtid |-> ForeignRtid,
        predicates |-> << [ type |-> "IFX_OPR_LT",
                            expr_string |-> "(b < 1)" ] >>,
        count |-> 1 ] }

\* a clause about to be walked with a context, and once walked (visited) what
\* the walker returned (ret), whether it raised an error (raised) and what
\* it made of the context (context); here no clause to walk
NoWalk ==
    [ node |-> [ type |-> "none" ], visited |-> FALSE, ret |-> FALSE,
      raised |-> FALSE,
      before |-> [ foreign_rtid |-> ForeignRtid, predicates |-> <<>>,
                   count |-> 0 ],
      context |-> [ foreign_rtid |-> ForeignRtid, predicates |-> <<>>,
                    count |-> 0 ] ]

\* the caller hands one restriction clause to the walker
WalkQual ==
    /\ walk.node.type # "none"
    /\ ~walk.visited
    /\ walk' = [walk EXCEPT
                  !.visited = TRUE,
                  !.ret = ifx_predicate_tree_walker(walk.node,
                                                    walk.before).ret,
                  !.raised = ifx_predicate_tree_walker(walk.node,
                                                       walk.before).raised,
                  !.context = ifx_predicate_tree_walker(walk.node,
                                                        walk.before).context]
    /\ UNCHANGED <<cacheVars, scanVars, conv, loc_buffer, validated, opened>>

(***************************************************************************)
(* Option validation                                                       *)
(***************************************************************************)
\* the most options of a list
MaxOptions == 2

\* the table of option names and the catalog each belongs to, without the
\* NULL entry that ends it
ifx_valid_options ==
    << [ optname |-> "informixserver",
         optcontext |-> "ForeignServerRelationId" ],
       [ optname |-> "user", optcontext |-> "UserMappingRelationId" ],
       [ optname |-> "password", optcontext |-> "UserMappingRelationId" ],
       [ optname |-> "database", optcontext |-> "ForeignTableRelationId" ],
       [ optname |-> "query", optcontext |-> "ForeignTableRelationId" ],
       [ optname |-> "table", optcontext |-> "ForeignTableRelationId" ],
       [ optname |-> "estimated_rows",
         optcontext |-> "ForeignTableRelationId" ],
       [ optname |-> "connection_costs",
         optcontext |-> "ForeignTableRelationId" ] >>

\* the loop compares the name of the table entry with itself
ifxIsValidOption(option, context) ==
    \E i \in 1..Len(ifx_valid_options) :
        /\ context = ifx_valid_options[i].optcontext
        /\ ifx_valid_options[i].optname = ifx_valid_options[i].optname

\* IfxConnectionInfo coninfo = {0}
NoOptions ==
    [ options |-> <<>>, catalogOid |-> "none", called |-> FALSE,
      error |-> "", defname |-> "",
      coninfo |-> [ servername |-> NullStr, database |-> NullStr,
                    username |-> NullStr, password |-> NullStr,
                    query |-> NullStr, tablename |-> NullStr ] ]

\* strtof() of an option value: the number read, and whether endp == val
\* (nothing was converted)
Strtof(val) ==
    CASE val = "100" -> [ number |-> 100, unread |-> FALSE ]
      [] val = "-5" -> [ number |-> 0 - 5, unread |-> FALSE ]
      [] OTHER -> [ number |-> 0, unread |-> TRUE ]

\* the error ifxGetOptionDups raises for the option ("" when it returns),
\* and the connection info it leaves
ifxGetOptionDups(coninfo, def) ==
    CASE def.defname = "servername" ->
            IF coninfo.servername # NullStr
            THEN [ error |-> "conflicting or redundant options: servername",
                   coninfo |-> coninfo ]
            ELSE [ error |-> "",
                   coninfo |-> [coninfo EXCEPT !.servername = def.arg] ]
      [] def.defname = "database" ->
            IF coninfo.database # NullStr
            THEN [ error |-> "conflicting or redundant options: database",
                   coninfo |-> coninfo ]
            ELSE [ error |-> "",
                   coninfo |-> [coninfo EXCEPT !.database = def.arg] ]
      [] def.defname = "username" ->
            IF coninfo.database # NullStr
            THEN [ error |-> "conflicting or redundant options: username",
                   coninfo |-> coninfo ]
            ELSE [ error |-> "",
                   coninfo |-> [coninfo EXCEPT !.username = def.arg] ]
      [] def.defname = "password" ->
            IF coninfo.password # NullStr
            THEN [ error |-> "conflicting or redundant options: password",
                   coninfo |-> coninfo ]
            ELSE [ error |-> "",
                   coninfo |-> [coninfo EXCEPT !.password = def.arg] ]
      [] def.defname = "query" ->
            IF coninfo.tablename # NullStr
            THEN [ error |->
                     "conflicting options: query cannot be used with table",
                   coninfo |-> coninfo ]
            ELSE IF coninfo.query # NullStr
            THEN [ error |-> "conflicting or redundant options: query",
                   coninfo |-> coninfo ]
            ELSE [ error |-> "",
                   coninfo |-> [coninfo EXCEPT !.tablename = def.arg] ]
      [] def.defname = "table" ->
            IF coninfo.query # NullStr
            THEN [ error |->
                     "conflicting options: query cannot be used with query",
                   coninfo |-> coninfo ]
            ELSE IF coninfo.tablename # NullStr
            THEN [ error |-> "conflicting or redundant options: table",
                   coninfo |-> coninfo ]
            ELSE [ error |-> "",
                   coninfo |-> [coninfo EXCEPT !.tablename = def.arg] ]
      [] def.defname \in {"estimated_rows", "connection_costs"} ->
            IF Strtof(def.arg).unread /\ Strtof(def.arg).number < 0
            THEN [ error |-> "not a valid number for parameter "
                                \o "\"estimated_rows\"",
                   coninfo |-> coninfo ]
            ELSE [ error |-> "", coninfo |-> coninfo ]
      [] OTHER -> [ error |-> "", coninfo |-> coninfo ]

\* foreach(cell, ifx_options_list) from option i on: the error raised and
\* the option it was raised for, or no error at the end of the list
RECURSIVE ifx_fdw_validator(_, _, _, _)
ifx_fdw_validator(options, catalogOid, i, coninfo) ==
    IF i > Len(options)
    THEN [ error |-> "", defname |-> "", coninfo |-> coninfo ]
    ELSE IF ~ifxIsValidOption(options[i].defname, catalogOid)
    THEN [ error |-> "invalid option", defname |-> options[i].defname,
           coninfo |-> coninfo ]
    ELSE LET dups == ifxGetOptionDups(coninfo, options[i])
         IN IF dups.error # ""
            THEN [ error |-> dups.error, defname |-> options[i].defname,
                   coninfo |-> coninfo ]
            ELSE ifx_fdw_validator(options, catalogOid, i + 1, dups.coninfo)

\* the options CREATE and ALTER hand to the validator: the names of the
\* table, the names ifxGetOptionDups compares with, and another name
DefElems ==
    [ defname : {"informixserver", "user", "password", "database", "query",
                 "table", "servername", "username", "bogus"},
      arg : {"x"} ]
    \cup [ defname : {"estimated_rows", "connection_costs"},
           arg : {"100", "-5", "many"} ]

\* CREATE or ALTER calls the validator on the option list
Validate ==
    /\ ~validated.called
    /\ validated.catalogOid # "none"
    /\ validated' =
          [validated EXCEPT
             !.called = TRUE,
             !.error = ifx_fdw_validator(validated.options,
                                         validated.catalogOid, 1,
                                         NoOptions.coninfo).error,
             !.defname = ifx_fdw_validator(validated.options,
                                           validated.catalogOid, 1,
                                           NoOptions.coninfo).defname,
             !.coninfo = ifx_fdw_validator(validated.options,
                                           validated.catalogOid, 1,
                                           NoOptions.coninfo).coninfo]
    /\ UNCHANGED <<cacheVars, scanVars, conv, loc_buffer, walk, opened>>

(***************************************************************************)
(* Specifications                                                          *)
(***************************************************************************)
BackendInit ==
    /\ IfxCacheIsInitialized = FALSE
    /\ connections = {}
    /\ tables = {}
    /\ ret = [ op |-> "none", key |-> "", found |-> FALSE, item |-> NullItem,
               scan_mode |-> NullStr, oid |-> 0, username |-> NullStr ]
    /\ lastUsage = [k \in ConNames |-> 0]
    /\ backend = "running"
    /\ scans = [s \in ScanIds |-> NoScan]
    /\ last = NoCall
    /\ opened = {}

Init ==
    /\ BackendInit
    /\ conv = NoConv
    /\ loc_buffer = NoRow
    /\ walk = NoWalk
    /\ validated = NoOptions

CacheInit == InformixCacheInit /\ UNCHANGED <<scanVars, pureVars>>
CacheAdd ==
    \E oid \in Oids, coninfo \in ConnInfos :
        ifxConnCache_add(oid, coninfo) /\ UNCHANGED <<scanVars, pureVars>>
CacheExists ==
    \E conname \in ConNames : ifxConnCache_exists(conname) /\ UNCHANGED <<scanVars, pureVars>>
CacheRm ==
    \E conname \in ConNames : ifxConnCache_rm(conname) /\ UNCHANGED <<scanVars, pureVars>>
FTCacheAdd ==
    \E oid \in Oids, conname \in ConNames :
        ifxFTCache_add(oid, conname) /\ UNCHANGED <<scanVars, pureVars>>

\* the cache interface, called in any order
Next ==
    \/ CacheInit
    \/ CacheAdd
    \/ CacheExists
    \/ CacheRm
    \/ FTCacheAdd

Spec == Init /\ [][Next]_vars

ScanBegin ==
    \E s \in ScanIds, oid \in ForeignTableOids :
        ifxBeginForeignScan(s, oid) /\ UNCHANGED pureVars
ScanIterate ==
    \E s \in ScanIds : ifxIterateForeignScan(s) /\ UNCHANGED pureVars

\* the scan callbacks of one backend, called by the executor
ScanNext ==
    \/ CacheInit
    \/ ScanBegin
    \/ ScanIterate

ScanSpec == Init /\ [][ScanNext]_vars

\* the planner plans scans of the foreign tables, one after the other
PlanScan ==
    \E oid \in ForeignTableOids,
       status \in {"IFX_CONNECTION_OK", "IFX_CONNECTION_WARN",
                   "IFX_CONNECTION_ERROR"} :
        ifxPlanForeignScan(oid, status)

PlanSpec == Init /\ [][PlanScan]_vars

\* a row is fetched and one of its columns is about to be converted; the
\* bytes of a large object lie in the locator buffer
ConvInit ==
    /\ BackendInit
    /\ conv \in ConvCalls
    /\ loc_buffer = IF conv.routine = "convertIfxSimpleLO"
                    THEN conv.attr.value ELSE NoRow
    /\ walk = NoWalk
    /\ validated = NoOptions

\* the conversion routines, called on the columns of fetched rows
ConvNext ==
    \/ ConvDate
    \/ ConvTimestamp
    \/ ConvDecimal
    \/ ConvInt
    \/ SetInteger
    \/ ConvBoolean
    \/ ConvSimpleLO
    \/ ConvCharacterString
    \/ FetchNextRow

ConvSpec == ConvInit /\ [][ConvNext]_vars

\* the walker applied to every restriction clause of Quals
WalkInit ==
    /\ BackendInit
    /\ conv = NoConv
    /\ loc_buffer = NoRow
    /\ walk \in { [ node |-> node, visited |-> FALSE, ret |-> FALSE,
                     raised |-> FALSE, before |-> context,
                     context |-> context ] :
                   node \in Quals, context \in WalkContexts }
    /\ validated = NoOptions

WalkNext == WalkQual

WalkSpec == WalkInit /\ [][WalkNext]_vars

\* the validator applied to every option list of at most MaxOptions options
ValidatorInit ==
    /\ BackendInit
    /\ conv = NoConv
    /\ loc_buffer = NoRow
    /\ walk = NoWalk
    /\ validated \in
          { [NoOptions EXCEPT !.options = options, !.catalogOid = catalogOid] :
              options \in UNION { [1..n -> DefElems] : n \in 0..MaxOptions },
              catalogOid \in
                 { "ForeignDataWrapperRelationId", "ForeignServerRelationId",
                   "UserMappingRelationId", "ForeignTableRelationId" } }

ValidatorNext == Validate

ValidatorSpec == ValidatorInit /\ [][ValidatorNext]_vars

(***************************************************************************)
(* Properties of the connection cache and the foreign table cache          *)
(***************************************************************************)
UsageOf(conns, key) == (CHOOSE e \in conns : e.key = key).usage

\* C1: an add() for a connection name that is cached returns the entry that
\* is cached already, the cache holds exactly one entry for the name, and
\* the entry keeps the parameters of the call that created it (established
\* by table, servername, informixdir, username, database, locales).
C1_SameIdentitySameSession ==
    [][ret'.op = "add" =>
        /\ Cardinality({e \in connections' : e.key = ret'.key}) = 1
        /\ \E e \in connections' : e.key = ret'.key /\ e.addr = ret'.item
        /\ ret'.found =>
             \E e \in connections :
                /\ e.key = ret'.key
                /\ e.addr = ret'.item
                /\ \A e2 \in connections' :
                      e2.key = e.key => Params(e2) = Params(e)]_vars

\* an add() found an entry that another table, with another user name,
\* had created
C1_Witness ==
    /\ ret.op = "add"
    /\ ret.found
    /\ \E e \in connections :
         /\ e.key = ret.key
         /\ e.addr = ret.item
         /\ e.username # ret.username
         /\ e.establishedByOid # ret.oid

\* C2: the usage counter is 1 after the add() that creates the entry, an
\* add() that finds the entry raises it by exactly 1 in scan mode
\* IFX_PLAN_SCAN and leaves it alone in any other scan mode, and exists()
\* changes nothing in the cache.
C2_UsageCounter ==
    [][/\ ret'.op = "add" /\ ~ret'.found =>
            UsageOf(connections', ret'.key) = 1
       /\ ret'.op = "add" /\ ret'.found =>
            UsageOf(connections', ret'.key) =
                UsageOf(connections, ret'.key)
                    + (IF ret'.scan_mode = "IFX_PLAN_SCAN" THEN 1 ELSE 0)
       /\ ret'.op = "exists" => connections' = connections]_vars

\* an add() outside IFX_PLAN_SCAN found an entry whose counter had been
\* raised before
C2_Witness ==
    /\ ret.op = "add"
    /\ ret.found
    /\ ret.scan_mode # "IFX_PLAN_SCAN"
    /\ UsageOf(connections, ret.key) = 2

\* C4: the usage add() returns for a connection name never decreases, also
\* across a remove and a later add of the name.
C4_UsageNeverDecreases ==
    [][\A k \in ConNames : lastUsage'[k] >= lastUsage[k]]_vars

Active(s) == scans[s].status = "begun"

\* C3: two scans active at the same time on one session have different
\* statement identifiers and different cursor identifiers.
C3_DistinctIdentifiers ==
    \A s1 \in ScanIds, s2 \in ScanIds :
        s1 # s2 /\ Active(s1) /\ Active(s2)
                /\ scans[s1].conname = scans[s2].conname
            => /\ scans[s1].stmt_name # scans[s2].stmt_name
               /\ scans[s1].cursor_name # scans[s2].cursor_name

CallNames(calls) == [i \in 1..Len(calls) |-> calls[i][1]]
IsPrefix(a, b) == Len(a) <= Len(b) /\ a = SubSeq(b, 1, Len(a))

\* C6: a scan start issues its remote steps in the order prepare, declare,
\* allocate descriptor, describe, open, so the cursor is never opened before
\* the descriptor is populated, and no step follows one that reported a
\* severe fault.
C6_StepOrder ==
    last.handler = "begin" =>
        /\ IsPrefix(CallNames(last.calls),
                    <<"prepare", "declare", "allocate", "describe", "open">>)
        /\ \A i \in 1..Len(last.calls) :
              last.calls[i][2] = "IFX_RT_ERROR" => i = Len(last.calls)

\* C7: after a fetch of a scan reported end of data, no later call of
\* ifxIterateForeignScan on that scan fetches again, so the empty slot is
\* returned once.
C7_NoFetchAfterEnd ==
    \A s \in ScanIds : scans[s].eodAt # 0 => scans[s].fetched = scans[s].eodAt

\* C8: a non-empty row has a value or an explicit null at every local column
\* position and reports the local table's attribute count as its column
\* count.
C8_RowComplete ==
    last.handler = "iterate" /\ last.outcome = "ok" /\ ~last.slot.isempty =>
        /\ last.slot.nvalid = scans[last.scan].pgAttrCount
        /\ \A p \in 1..scans[last.scan].pgAttrCount :
              /\ p <= Len(last.slot.cols)
              /\ last.slot.cols[p] \in {ExplicitNull, NonNull}

\* C9: in every fetched row every dropped local column is an explicit null,
\* and no remote value is read at a position outside the descriptor.
C9_DroppedIsNull ==
    last.handler = "iterate" /\ last.outcome = "ok" /\ ~last.slot.isempty =>
        /\ \A p \in 1..scans[last.scan].pgAttrCount :
              scans[last.scan].pgAttrDefs[p] = PgNull =>
                  /\ p <= Len(last.slot.cols)
                  /\ last.slot.cols[p] = ExplicitNull
        /\ last.reads \subseteq 1..scans[last.scan].ifxAttrCount

\* C10: a remote call of a scan that reports a runtime error or an
\* application error is the last remote call of the callback and the
\* callback raises an error; a fetch that reports not-found raises none.
C10_FaultAborts ==
    last.handler \in {"begin", "iterate"} =>
        \A i \in 1..Len(last.calls) :
            /\ last.calls[i][2] \in {"IFX_RT_ERROR", "IFX_ERROR"} =>
                    i = Len(last.calls) /\ last.outcome = "error"
            /\ last.calls[i] = <<"fetch", "IFX_NOT_FOUND">> =>
                    last.outcome = "ok"
\* C11: when ifxBeginForeignScan or ifxIterateForeignScan raises an error
\* because a remote call faulted, ifxRewindCallstack() has been called at
\* least once before the error leaves the function.
C11_RewindBeforeRaise ==
    (last.outcome = "error" /\ last.cause = "remote") => last.rewinds >= 1

(***************************************************************************)
(* Properties of the conversion routines                                   *)
(***************************************************************************)
\* the routines that convert a remote value into a local datum
ConvRoutines ==
    { "convertIfxDateString", "convertIfxTimestampString",
      "convertIfxDecimal", "convertIfxInt", "convertIfxBoolean",
      "convertIfxSimpleLO", "convertIfxCharacterString" }

\* C12: in every conversion routine a failed lookup of the type input or
\* cast routine raises an error; the attribute is never merely marked not
\* valid, and the routine never merely returns the null datum.
C12_FailedLookupFatal ==
    (conv.routine \in ConvRoutines /\ conv.called
        /\ conv.out.lookups = <<"failed">>) =>
        conv.out.raised /\ ~conv.out.notvalid

\* C13: every error that leaves a conversion routine, from a failed lookup
\* or from the input or cast routine it called, has been preceded by at
\* least one ifxRewindCallstack().
C13_RewindBeforeError ==
    (conv.routine \in ConvRoutines /\ conv.called /\ conv.out.raised) =>
        conv.out.rewinds >= 1

\* the pairs of remote type and local type each routine accepts
CompatTable(routine) ==
    CASE routine = "convertIfxDateString" ->
            {"IFX_DATE"} \X {"TEXTOID", "VARCHAROID", "BPCHAROID", "DATEOID"}
      [] routine = "convertIfxTimestampString" ->
            {"IFX_DTIME"} \X {"TEXTOID", "VARCHAROID", "BPCHAROID", "TIMESTAMPOID",
                            "TIMESTAMPTZOID"}
      [] routine = "convertIfxDecimal" -> {"IFX_DECIMAL"} \X {"NUMERICOID"}
      [] routine = "convertIfxInt" ->
            ({"IFX_SMALLINT"} \X {"INT2OID"})
            \cup ({"IFX_SMALLINT", "IFX_INTEGER", "IFX_SERIAL"} \X {"INT4OID"})
            \cup (IfxIntTypes \X {"INT8OID", "TEXTOID", "VARCHAROID", "BPCHAROID"})
      [] routine = "convertIfxBoolean" ->
            {"IFX_BOOLEAN"} \X {"BOOLOID", "CHAROID", "TEXTOID", "VARCHAROID",
                              "BPCHAROID"}
      [] routine = "convertIfxSimpleLO" ->
            {"IFX_TEXT", "IFX_BYTES"} \X {"TEXTOID", "VARCHAROID", "BPCHAROID",
                                      "BYTEAOID"}
      [] routine = "convertIfxCharacterString" ->
            {"IFX_CHARACTER"} \X {"TEXTOID", "VARCHAROID", "BPCHAROID", "BYTEAOID"}

\* the remote accessor that reads a value of the remote type as that type
OwnAccessor(type) ==
    CASE type = "IFX_SMALLINT" -> "ifxGetInt2"
      [] type \in {"IFX_INTEGER", "IFX_SERIAL"} -> "ifxGetInt4"
      [] type \in {"IFX_INT8", "IFX_SERIAL8"} -> "ifxGetInt8"
      [] type = "IFX_INFX_INT8" -> "ifxGetBigInt"
      [] type = "IFX_DATE" -> "ifxGetDateAsString"
      [] type = "IFX_DTIME" -> "ifxGetTimestampAsString"
      [] type = "IFX_DECIMAL" -> "ifxGetDecimal"
      [] type = "IFX_BOOLEAN" -> "ifxGetBool"
      [] type \in {"IFX_TEXT", "IFX_BYTES"} -> "ifxGetTextFromLocator"
      [] type = "IFX_CHARACTER" -> "ifxGetText"

Representation(accessor) ==
    CASE accessor \in {"ifxGetInt2", "ifxSetInt2"} -> "2-byte"
      [] accessor \in {"ifxGetInt4", "ifxSetInteger"} -> "4-byte"
      [] accessor \in {"ifxGetInt8", "ifxSetInt8"} -> "INT8 as text"
      [] accessor \in {"ifxGetBigInt", "ifxSetBigint"} -> "BIGINT as text"

\* the local integer type of the same width as the remote type
NativeLocal(type) ==
    CASE type = "IFX_SMALLINT" -> "INT2OID"
      [] type \in {"IFX_INTEGER", "IFX_SERIAL"} -> "INT4OID"
      [] type \in {"IFX_INT8", "IFX_SERIAL8", "IFX_INFX_INT8"} -> "INT8OID"

\* C19: for every remote integer type, the representation setIfxInteger
\* binds a value in is the one convertIfxInt reads a value of that type in
\* (2-byte, 4-byte, INT8 as text, BIGINT as text), and an 8-byte value is
\* rendered to text by the output routine of the local type before it is
\* bound.
C19_BindMirrorsRead ==
    (/\ conv.routine = "setIfxInteger"
     /\ conv.called
     /\ conv.attr.atttypid = NativeLocal(conv.attr.type)
     /\ ~conv.out.raised)
    => /\ Len(conv.out.writes) = 1
       /\ \A c \in ConvCalls :
            (/\ c.routine = "convertIfxInt"
             /\ c.attr.type = conv.attr.type
             /\ c.attr.atttypid = conv.attr.atttypid
             /\ ~c.attr.isnull
             /\ c.env.lookup /\ c.env.call)
            => LET read == convertIfxInt([attrs |-> <<c.attr>>], 1, c.env)
               IN /\ Len(read.reads) = 1
                  /\ Representation(read.reads[1])
                        = Representation(conv.out.writes[1][1])
       /\ conv.attr.type \in {"IFX_INT8", "IFX_SERIAL8", "IFX_INFX_INT8"} =>
            /\ conv.out.writes[1][2].kind = "call"
            /\ conv.out.writes[1][2].proc = <<"typoutput", conv.attr.atttypid>>

\* C20: for every supported target type the datum convertIfxSimpleLO
\* returns for a non-null large object lies in storage of its own, not in
\* the locator buffer, and keeps showing the bytes of the row it was read
\* from when the cursor advances and the locator buffer is reused.
C20_LOResultOwned ==
    (/\ conv.routine = "convertIfxSimpleLO"
     /\ conv.called
     /\ conv.out.result # NullDatum)
    => /\ conv.out.result.storage = "palloc"
       /\ (IF conv.out.result.storage = "loc_buffer" THEN loc_buffer
           ELSE conv.out.result.bytes) = conv.attr.value

\* a large object was converted for a text column and the cursor has moved
\* on to a row with another large object since
C20_Witness ==
    /\ conv.routine = "convertIfxSimpleLO"
    /\ conv.called
    /\ conv.attr.atttypid = "TEXTOID"
    /\ conv.out.result # NullDatum
    /\ loc_buffer # conv.attr.value

(***************************************************************************)
(* Properties of the predicate walker                                      *)
(***************************************************************************)
\* what the walk of the clause appended to the list
Appended == SubSeq(walk.context.predicates, Len(walk.before.predicates) + 1,
                   Len(walk.context.predicates))

IsMarker(info) == info.type \in {"IFX_OPR_AND", "IFX_OPR_OR", "IFX_OPR_NOT"}

\* C14: what the walk of a boolean connective appends reads as infix:
\* fragments at the odd places, connective markers at the even places, a
\* fragment first and a fragment last.
C14_InfixAlternation ==
    (/\ walk.visited
     /\ ~walk.raised
     /\ walk.node.type = "T_BoolExpr"
     /\ Len(Appended) > 0) =>
        /\ Len(Appended) % 2 = 1
        /\ \A i \in 1..Len(Appended) :
              IF i % 2 = 1
              THEN ~IsMarker(Appended[i]) /\ Appended[i].expr_string # ""
              ELSE IsMarker(Appended[i])

\* a column of the relation the scan is for, at the level of this query
TargetColumn(arg) ==
    /\ arg.type = "T_Var"
    /\ arg.varno = ForeignRtid
    /\ arg.varlevelsup = 0

\* the walk of the clause left the list and the count as they were
Untouched ==
    /\ walk.context.predicates = walk.before.predicates
    /\ walk.context.count = walk.before.count

\* C15: a comparison contributes a fragment only if every operand is a
\* constant or a column of the target relation at level 0; with any other
\* operand the list and the count stay as they were.
C15_OperandsAllOrNothing ==
    (walk.visited /\ ~walk.raised /\ walk.node.type = "T_OpExpr") =>
        LET pushable == \A i \in 1..Len(walk.node.args) :
                            \/ walk.node.args[i].type = "T_Const"
                            \/ TargetColumn(walk.node.args[i])
        IN /\ Len(Appended) > 0 => pushable
           /\ ~pushable => Untouched

\* a > (SELECT ...) walked after another clause left its fragment
C15_Witness ==
    /\ walk.visited
    /\ walk.node = OpExpr(Operator(">", "PG_CATALOG_NAMESPACE"), ColA, SubLink)
    /\ walk.before.count = 1
    /\ Untouched

\* C16: a comparison is accepted only with one of the seven operator names
\* in pg_catalog; any other operator maps to IFX_OPR_NOT_SUPPORTED and
\* contributes nothing.
C16_BuiltinOperatorsOnly ==
    (walk.visited /\ ~walk.raised /\ walk.node.type = "T_OpExpr") =>
        LET builtin ==
                /\ walk.node.opno.oprnamespace = "PG_CATALOG_NAMESPACE"
                /\ walk.node.opno.oprname
                      \in {">=", "<=", "<", ">", "=", "<>", "~~"}
        IN
        /\ Len(Appended) > 0 => builtin
        /\ ~builtin =>
              /\ mapPushdownOperator(walk.node.opno) = "IFX_OPR_NOT_SUPPORTED"
              /\ Untouched

\* a = 5 with the "=" of another namespace
C16_Witness ==
    /\ walk.visited
    /\ walk.node = OpExpr(Operator("=", "public"), ColA, Const("5"))
    /\ Untouched

\* C17: a NullTest on a row contributes nothing, a NullTest on a column of
\* the target relation at level 0 contributes one fragment of the kind of
\* the test, a NullTest on anything else contributes nothing.
C17_NullTestPushdown ==
    (walk.visited /\ walk.node.type = "T_NullTest") =>
        IF ~walk.node.argisrow /\ TargetColumn(walk.node.arg)
        THEN /\ Len(Appended) = 1
             /\ walk.context.count = walk.before.count + 1
             /\ Appended[1].type =
                   (IF walk.node.nulltesttype = "IS_NULL" THEN "IFX_IS_NULL"
                    ELSE "IFX_IS_NOT_NULL")
        ELSE Untouched

\* a row of the target relation tested for NULL
C17_Witness ==
    /\ walk.visited
    /\ walk.node = NullTest(ColA, "IS_NOT_NULL", TRUE)
    /\ Untouched

(***************************************************************************)
(* Properties of the cache interface: removal and lookup                   *)
(***************************************************************************)
\* C21: ifxConnCache_rm on a cached name takes that entry out of the table
\* and returns it, and every other entry stays; ifxConnCache_rm and
\* ifxConnCache_exists on a name that is not cached return NULL with found
\* unset and leave the table as it is; after a removal a lookup of the name
\* finds nothing. The table cache is never touched.
C21_RemoveEvicts ==
    [][/\ ret'.op = "rm" =>
            /\ tables' = tables
            /\ ~\E e \in connections' : e.key = ret'.key
            /\ IF \E e \in connections : e.key = ret'.key
               THEN /\ ret'.found
                    /\ \E e \in connections :
                          /\ e.key = ret'.key
                          /\ e.addr = ret'.item
                          /\ connections' = connections \ {e}
               ELSE /\ ~ret'.found
                    /\ ret'.item = NullItem
                    /\ connections' = connections
       /\ ret'.op = "exists" =>
            /\ tables' = tables
            /\ connections' = connections
            /\ ret'.found = (\E e \in connections : e.key = ret'.key)
            /\ ~ret'.found => ret'.item = NullItem]_vars

\* a removal found its entry and left another one in the table
C21_Witness ==
    /\ ret.op = "rm"
    /\ ret.found
    /\ ret.item # NullItem
    /\ connections # {}

(***************************************************************************)
(* Properties of the option validator                                      *)
(***************************************************************************)
\* C22: an option list that gives informixserver, database, user, password,
\* table or query twice, or gives both query and table, is rejected; a list
\* without a duplicate and without that contradiction is not rejected as
\* conflicting or redundant.
C22_DuplicatesRejected ==
    validated.called =>
        LET opts == validated.options
            dup == \E i, j \in 1..Len(opts) :
                      /\ i < j
                      /\ opts[i].defname = opts[j].defname
                      /\ opts[i].defname \in
                            {"informixserver", "database", "user",
                             "password", "table", "query"}
            contra == \E i, j \in 1..Len(opts) :
                         opts[i].defname = "query" /\ opts[j].defname = "table"
        IN /\ (dup \/ contra) => validated.error # ""
           /\ ~(dup \/ contra) =>
                 validated.error \in
                    {"", "invalid option",
                     "not a valid number for parameter \"estimated_rows\""}

\* C23: the validator raises "invalid option" for the first option whose
\* name ifx_valid_options does not list for the catalog, and for no option
\* the table lists for it.
C23_UnlistedOptionInvalid ==
    validated.called =>
        LET opts == validated.options
            listed(name) ==
                \E k \in 1..Len(ifx_valid_options) :
                    /\ ifx_valid_options[k].optname = name
                    /\ ifx_valid_options[k].optcontext = validated.catalogOid
        IN /\ (Len(opts) > 0 /\ ~listed(opts[1].defname)) =>
                 /\ validated.error = "invalid option"
                 /\ validated.defname = opts[1].defname
           /\ validated.error = "invalid option" =>
                 ~listed(validated.defname)

(***************************************************************************)
(* Properties of the local column definitions                              *)
(***************************************************************************)
\* C24: every foreign table of the catalog has as many pg_attribute rows as
\* attributes declared, so no ifxBeginForeignScan ends in the error
\* "unexpected number of attributes" that ifxPgColumnData raises.
C24_AttributeCountGuard ==
    last.handler = "begin" => last.cause # "attributes"

(***************************************************************************)
(* Properties of the connection name                                       *)
(***************************************************************************)
\* C25: connection identities that differ in user, database or server have
\* different connection names, so ifxConnCache_add never hands a caller the
\* session that was created for another user.
C25_IdentityKeysDistinct ==
    ret.op = "add" =>
        \A e \in connections :
            e.key = ret.key => e.username = ret.username

(***************************************************************************)
(* Properties of the planner callback                                      *)
(***************************************************************************)
\* C26: every entry of the connection cache stands for a remote connection
\* that was established.
C26_CachedMeansConnected ==
    \A e \in connections : e.key \in opened

(***************************************************************************)
(* Properties of the foreign table cache                                   *)
(***************************************************************************)
\* C27: the connection name ifxFTCache_add stores for a table it sees for
\* the first time is the connection name it was given.
C27_BindingIsIdentity ==
    (ret.op = "ftadd" /\ ~ret.found) =>
        \A t \in tables :
            t.foreignTableOid = ret.oid => t.ifx_connection_name = ret.key

(***************************************************************************)
(* Properties of the fragment sequence                                     *)
(***************************************************************************)
\* C28: the sequence the walker leaves tells predicates apart: NOT x leaves
\* another sequence than x, and (x OR y) AND z leaves another sequence than
\* x OR (y AND z), for accepted comparisons x, y and z.
C28_FragmentsTellPredicatesApart ==
    (walk.visited /\ walk.node.type = "T_BoolExpr") =>
        LET args == walk.node.args
            accepted == {GtConst, EqConst}
            other(node) ==
                ifx_predicate_tree_walker(node, walk.before).context.predicates
        IN /\ (walk.node.boolop = "NOT_EXPR" /\ args[1] \in accepted) =>
                 walk.context.predicates # other(args[1])
           /\ (/\ walk.node.boolop = "AND_EXPR"
               /\ Len(args) = 2
               /\ args[1].type = "T_BoolExpr"
               /\ args[1].boolop = "OR_EXPR"
               /\ args[2] \in accepted) =>
                 walk.context.predicates #
                    other(BoolExpr("OR_EXPR",
                             << args[1].args[1],
                                BoolExpr("AND_EXPR",
                                         <<args[1].args[2], args[2]>>) >>))

(***************************************************************************)
(* Properties of the cast branch and of the large object result            *)
(***************************************************************************)
\* C29: when convertIfxInt converts a fixed-width remote integer to a text,
\* varchar or bpchar target through the cast function, the width it reads
\* the value in and the source type of the cast it picks match the remote
\* type: 2 bytes and int2 for SMALLINT, 4 bytes and int4 for INTEGER and
\* SERIAL, so that no 4-byte value is truncated to 16 bits.
C29_CastWidthMatchesRemote ==
    (/\ conv.routine = "convertIfxInt"
     /\ conv.called
     /\ conv.attr.type \in {"IFX_SMALLINT", "IFX_INTEGER", "IFX_SERIAL"}
     /\ conv.attr.atttypid \in {"TEXTOID", "VARCHAROID", "BPCHAROID"}
     /\ conv.out.lookups # <<"failed">>)
    => LET wide == conv.attr.type # "IFX_SMALLINT"
       IN /\ conv.out.lookups =
               << <<"castfunc", IF wide THEN "INT4OID" ELSE "INT2OID",
                    conv.attr.atttypid>> >>
          /\ Len(conv.out.reads) = 1
          /\ Representation(conv.out.reads[1])
               = IF wide THEN "4-byte" ELSE "2-byte"

\* C30: for a non-null simple large object and a text, varchar or bpchar
\* target, the datum convertIfxSimpleLO returns is the result of the input
\* routine of the target type, called with the typmod of the column when it
\* has one; the raw byte copy is returned for a bytea target only.
C30_LOCharacterTargetsUseInput ==
    (/\ conv.routine = "convertIfxSimpleLO"
     /\ conv.called
     /\ ~conv.attr.isnull
     /\ ~conv.out.raised
     /\ ~conv.out.notvalid)
    => IF conv.attr.atttypid \in {"TEXTOID", "VARCHAROID", "BPCHAROID"}
       THEN conv.out.result =
               [ kind |-> "call",
                 proc |-> <<"typinput", conv.attr.atttypid>>,
                 args |-> IF conv.attr.atttypmod # -1
                          THEN <<conv.attr.value, conv.attr.atttypmod>>
                          ELSE <<conv.attr.value>> ]
       ELSE /\ conv.attr.atttypid = "BYTEAOID"
            /\ conv.out.result.kind = "bytea"
            /\ conv.out.result.bytes = conv.attr.value

====
